---- MODULE Spec2Model ----
(***************************************************************************)
(* Model of the MetaScheduler scheduler kernel: the constraint emitter     *)
(* (Z3Synthesizer), the decider gateway, the offset store (TreePath) and   *)
(* the three strategies of Scheduler (one-shot, incremental, segmented).   *)
(* Times are integers (ns).  The SMT variables hold NEGATED offsets, as    *)
(* the emitter writes them; save_solution decodes by dropping the sign.    *)
(***************************************************************************)
EXTENDS Integers, Sequences, FiniteSets, TLC

\* Python's None where an int is expected (offset grid cells, link ids).
None == -1

\* ------------------------------------------------------------------ bounds
\* Largest number of one-link filler frames appended to a base network.
MaxFill == 6
\* Cap on the number of decider rounds of one run (segmented mode can loop).
MaxRounds == 4
\* Largest offset of the grids handed to the verifier on their own.
MaxOffset == 7

\* ------------------------------------------------------- program constants
step_size_default == 5
segment_size == 1000000

\* ------------------------------------------------------------ Python helpers
Min2(a, b) == IF a < b THEN a ELSE b
Max2(a, b) == IF a > b THEN a ELSE b
MinOf(S) == CHOOSE x \in S : \A y \in S : x <= y
Abs(v) == IF v < 0 THEN -v ELSE v
\* int(ceil(a / b)) for a >= 0, b > 0
CeilDiv(a, b) == (a + b - 1) \div b
Range(s) == {s[j] : j \in 1..Len(s)}

\* Python slice index normalisation and seq[a:b]
PyIndex(n, len) == IF n < 0 THEN Max2(n + len, 0) ELSE Min2(n, len)
PySlice(s, a, b) ==
  LET lo == PyIndex(a, Len(s))
      hi == PyIndex(b, Len(s))
  IN IF lo < hi THEN SubSeq(s, lo + 1, hi) ELSE <<>>

\* --------------------------------------------------------------- path tree
\* A tree is an arena: a sequence of nodes, node 1 the root; parent 0 = None.
EmptyTreePath == [link_id |-> None, parent |-> 0, children |-> <<>>]

RECURSIVE add_new_path(_, _, _)
add_new_path(tree, n, path) ==
  IF tree[n].link_id = None
  THEN LET t1 == [tree EXCEPT ![n].link_id = Head(path)]
           rest == Tail(path)
       IN IF rest # <<>>
          THEN LET m == Len(t1) + 1
                   t2 == Append([t1 EXCEPT ![n].children = Append(@, m)],
                                [EmptyTreePath EXCEPT !.parent = n])
               IN add_new_path(t2, m, rest)
          ELSE t1
  ELSE IF Len(path) > 1
  THEN LET found == {j \in 1..Len(tree[n].children) :
                        tree[tree[n].children[j]].link_id = path[2]}
       IN IF found # {}
          THEN add_new_path(tree, tree[n].children[MinOf(found)], Tail(path))
          ELSE LET m == Len(tree) + 1
                   \* the new child's parent pointer is not set on this branch
                   t2 == Append([tree EXCEPT ![n].children = Append(@, m)],
                                EmptyTreePath)
               IN add_new_path(t2, m, Tail(path))
  ELSE tree

RECURSIVE add_path(_, _)
add_path(tree, paths) ==
  IF paths = <<>> THEN tree
  ELSE add_path(add_new_path(tree, 1, Head(paths)), Tail(paths))

\* TreePath.__iter__: pre-order traversal, as node indices
RECURSIVE TreeIter(_, _)
RECURSIVE TreeIterAll(_, _)
TreeIter(tree, n) == <<n>> \o TreeIterAll(tree, tree[n].children)
TreeIterAll(tree, cs) ==
  IF cs = <<>> THEN <<>>
  ELSE TreeIter(tree, Head(cs)) \o TreeIterAll(tree, Tail(cs))

\* ---------------------------------------------------------- network model
\* A network is the record the parser builds: links and frames are sequences
\* whose position j holds the object with (0-based) index j - 1.
get_number_frames(n) == n.num_frames
get_hyper_period(n) == n.hyper_period
get_frame_period(n, f) == n.frames[f + 1].period
get_frame_deadline(n, f) == n.frames[f + 1].deadline
get_frame_splits(n, f) == n.frames[f + 1].splits
get_replica_policy(n) == n.replica_policy
get_replica_interval(n) == n.replica_interval
get_minimum_time_switch(n) == n.minimum_time_switch
get_maximum_time_switch(n) == n.maximum_time_switch
get_sensing_control_period(n) == n.sensing_control_period
get_collision_domains(n) == n.collision_domains

\* index of the first collision domain that holds the link, -1 when none
link_in_collision_domain(n, link) ==
  LET hit == {d \in 1..Len(n.collision_domains) :
                 link \in Range(n.collision_domains[d])}
  IN IF hit = {} THEN -1 ELSE MinOf(hit) - 1

\* Frame.update_frame: int((size * 1000) / speed)
set_transmission_time(n, f, link) ==
  (n.frames[f + 1].size * 1000) \div n.links[link + 1].speed
\* Frame.update_frame: int(hyper_period / period)
num_instances_of(n, f) == n.hyper_period \div n.frames[f + 1].period
\* Frame.update_frame: replicas of the link's collision domain + 1, else 1
num_replicas_of(n, link) ==
  LET d == link_in_collision_domain(n, link)
  IN IF d < 0 THEN 1 ELSE n.list_replicas[d + 1] + 1

\* The frame's path tree as built by Frame.add_path from the XML paths
FrameTree(n, f) == add_path(<<EmptyTreePath>>, n.frames[f + 1].paths)

\* Network.get_frame_paths + iteration: the links of the tree in pre-order
LinksOf(tree) ==
  LET it == TreeIter(tree, 1) IN [j \in 1..Len(it) |-> tree[it[j]].link_id]
get_frame_paths(n, f) == LinksOf(FrameTree(n, f))

\* TreePath.get_children of the path node of frame f on the given link
get_children(n, f, link) ==
  LET tree == FrameTree(n, f)
      node == CHOOSE j \in 1..Len(tree) : tree[j].link_id = link
  IN [j \in 1..Len(tree[node].children) |-> tree[tree[node].children[j]].link_id]

\* Network.__create_sensing_control: one path holding every wireless link
RECURSIVE WirelessFrom(_, _)
WirelessFrom(n, j) ==
  IF j > Len(n.links) THEN <<>>
  ELSE (IF n.links[j].type = "wireless" THEN <<j - 1>> ELSE <<>>)
       \o WirelessFrom(n, j + 1)
HasSensingControl(n) == n.sensing_control_period # 0
get_sensing_control_path(n) ==
  LinksOf(add_path(<<EmptyTreePath>>, <<WirelessFrom(n, 1)>>))
sensing_num_instances(n) == n.hyper_period \div n.sensing_control_period

\* --------------------------------------------------------- dependency tree
\* Arena of DependencyNode; list_trees holds the roots; parent 0 = None.
DependencyNode(frame_index, link_index, waiting, deadline, parent) ==
  [frame_index |-> frame_index, link_index |-> link_index,
   waiting |-> waiting, deadline |-> deadline,
   parent |-> parent, children |-> <<>>]

add_new_children(nodes, p, frame_index, link_index, waiting, deadline) ==
  Append([nodes EXCEPT ![p].children = Append(@, Len(nodes) + 1)],
         DependencyNode(frame_index, link_index, waiting, deadline, p))

RECURSIVE search_and_add_dependency(_, _, _)
RECURSIVE SearchAndAddIn(_, _, _)
search_and_add_dependency(nodes, p, d) ==
  IF nodes[p].frame_index = d.predecessor_frame
     /\ nodes[p].link_index = d.predecessor_link
  THEN [found |-> TRUE,
        nodes |-> add_new_children(nodes, p, d.successor_frame,
                                   d.successor_link, d.waiting, d.deadline)]
  ELSE SearchAndAddIn(nodes, nodes[p].children, d)
SearchAndAddIn(nodes, cs, d) ==
  IF cs = <<>> THEN [found |-> FALSE, nodes |-> nodes]
  ELSE LET r == search_and_add_dependency(nodes, Head(cs), d)
       IN IF r.found THEN r ELSE SearchAndAddIn(nodes, Tail(cs), d)

add_dependency(t, d) ==
  LET r == SearchAndAddIn(t.nodes, t.list_trees, d)
  IN IF r.found
     THEN [t EXCEPT !.nodes = r.nodes]
     ELSE LET root == Len(t.nodes) + 1
              n1 == Append(t.nodes,
                           DependencyNode(d.predecessor_frame,
                                          d.predecessor_link, 0, 0, 0))
          IN [nodes |-> add_new_children(n1, root, d.successor_frame,
                                         d.successor_link, d.waiting, d.deadline),
              list_trees |-> Append(t.list_trees, root)]

RECURSIVE AddDependencies(_, _)
AddDependencies(t, ds) ==
  IF ds = <<>> THEN t ELSE AddDependencies(add_dependency(t, Head(ds)), Tail(ds))
\* Network.__get_dependencies_information_xml
get_dependencies(n) ==
  AddDependencies([nodes |-> <<>>, list_trees |-> <<>>], n.dependencies)

RECURSIVE get_dependency_by_predecessor_frame(_, _, _)
RECURSIVE FindByFrameIn(_, _, _)
get_dependency_by_predecessor_frame(nodes, p, frame_index) ==
  IF nodes[p].frame_index = frame_index THEN p
  ELSE FindByFrameIn(nodes, nodes[p].children, frame_index)
FindByFrameIn(nodes, cs, frame_index) ==
  IF cs = <<>> THEN 0
  ELSE LET r == get_dependency_by_predecessor_frame(nodes, Head(cs), frame_index)
       IN IF r # 0 THEN r ELSE FindByFrameIn(nodes, Tail(cs), frame_index)
\* DependencyTree.get_dependency_by_frame: node index, 0 for None
get_dependency_by_frame(t, frame_index) ==
  FindByFrameIn(t.nodes, t.list_trees, frame_index)

\* ----------------------------------------------------------- offset store
\* A decision-variable name.  Offset_<f>_<l>_<i>_<r> for a frame path;
\* Sensing_Control_<l>_<i>_<r> as TreePath.init_name_offset builds it (f is
\* None); re_init_variables writes Sensing_Control_<l>_<i> (r is None).
Name(kind, f, l, i, r) == [kind |-> kind, f |-> f, l |-> l, i |-> i, r |-> r]
OffsetName(f, l, i, r) == Name("Offset", f, l, i, r)
SensingName(l, i) == Name("Sensing_Control", None, l, i, 0)
\* the name of a block with the replica suffix, as init_name_offset builds it
SensingLongName(l, i) == Name("Sensing_Control", None, l, i, 0)

SensingShortName(l, i) == Name("Sensing_Control", None, l, i, None)

\* every cell of the offset grids of a frame (TreePath.init_offset)
FrameCells(n, f) ==
  UNION {{OffsetName(f, l, i, r) : i \in 0..(num_instances_of(n, f) - 1),
                                   r \in 0..(num_replicas_of(n, l) - 1)} :
         l \in Range(get_frame_paths(n, f))}
SensingCells(n) ==
  IF HasSensingControl(n)
  THEN {SensingName(l, i) : l \in Range(get_sensing_control_path(n)),
                            i \in 0..(sensing_num_instances(n) - 1)}
  ELSE {}
AllCells(n) ==
  SensingCells(n) \cup UNION {FrameCells(n, f) : f \in 0..(n.num_frames - 1)}

\* TreePath.get_transmission_time of the path a name belongs to
get_transmission_time(n, name) ==
  IF name.kind = "Offset" THEN set_transmission_time(n, name.f, name.l)
  ELSE n.sensing_control_time

\* ------------------------------------------------------------ SMT formula
\* One assertion of the file, over the (negated) SMT variables a and b.
NoName == Name("", None, None, None, None)
Assertion(op, a, b, k, k2) == [op |-> op, a |-> a, b |-> b, k |-> k, k2 |-> k2]
LeConst(a, k) == Assertion("<= a (- k)", a, NoName, k, 0)
GtConst(a, k) == Assertion("> a (- k)", a, NoName, k, 0)
EqConst(a, k) == Assertion("= a (- k)", a, NoName, k, 0)
EqMinus(a, b, k) == Assertion("= a (- b k)", a, b, k, 0)
LeMinus(a, b, k) == Assertion("<= a (- b k)", a, b, k, 0)
GtMinus(a, b, k) == Assertion("> a (- b k)", a, b, k, 0)
LtMinus(a, b, k) == Assertion("< a (- b k)", a, b, k, 0)
LtVar(a, b) == Assertion("< a b", a, b, 0, 0)
EqVar(a, b) == Assertion("= a b", a, b, 0, 0)
OrApart(a, k, b, k2) == Assertion("or (> (- a k) b) (<= a (- b k2))", a, b, k, k2)

\* the frame indices of a frame queue, in order
FrameIndices(frames) == [j \in 1..Len(frames) |-> frames[j].frame]

\* ----------------------------------------------- Z3Synthesizer.init_variables
\* a replica stride that ignores the replica policy
ReplicaStrideSpread(n, f, l) ==
  IF num_replicas_of(n, l) > 1 THEN get_replica_interval(n) ELSE 0

\* the local replica_interval of init_variables
ReplicaStride(n, f, l) ==
  IF num_replicas_of(n, l) > 1
  THEN IF get_replica_policy(n) = "Spread" THEN get_replica_interval(n)
       ELSE set_transmission_time(n, f, l)
  ELSE 0
\* an end_time that leaves no room for the transmission itself
EndTimeOfStart(n, f, l, ending_time) ==
  (IF get_frame_deadline(n, f) > ending_time THEN ending_time
   ELSE get_frame_deadline(n, f))
  - (num_replicas_of(n, l) - 1) * ReplicaStride(n, f, l)
\* the local end_time of init_variables
EndTime(n, f, l, ending_time) ==
  (IF get_frame_deadline(n, f) > ending_time THEN ending_time
   ELSE get_frame_deadline(n, f))
  - set_transmission_time(n, f, l)
  - (num_replicas_of(n, l) - 1) * ReplicaStride(n, f, l)

\* the bounds written for O[0][0] of a path
RangeAsserts(n, f, l, starting_time, ending_time) ==
  {LeConst(OffsetName(f, l, 0, 0), starting_time),
   GtConst(OffsetName(f, l, 0, 0), EndTime(n, f, l, ending_time))}
\* the equalities written for the rest of the offset matrix of a path
LatticeAsserts(n, f, l) ==
  {EqMinus(c, OffsetName(f, l, 0, 0),
           c.i * get_frame_period(n, f) + c.r * ReplicaStride(n, f, l)) :
     c \in {x \in FrameCells(n, f) : x.l = l /\ (x.i # 0 \/ x.r # 0)}}

InitSensing(n, starting_time) == starting_time = 0 /\ HasSensingControl(n)

init_variables(n, frames, starting_time, ending_time) ==
  [decls |-> UNION {FrameCells(n, f) : f \in Range(FrameIndices(frames))}
             \cup (IF InitSensing(n, starting_time) THEN SensingCells(n) ELSE {}),
   asserts |->
     UNION {RangeAsserts(n, f, l, starting_time, ending_time)
            \cup LatticeAsserts(n, f, l) :
            <<f, l>> \in {<<c.f, c.l>> :
                 c \in UNION {FrameCells(n, f) : f \in Range(FrameIndices(frames))}}}
     \cup (IF InitSensing(n, starting_time)
           THEN {EqConst(c, c.i * get_sensing_control_period(n)) :
                   c \in SensingCells(n)}
           ELSE {})]

\* --------------------------------------------- Z3Synthesizer.contention_free
\* a contention test that forgets the collision domains
ContendSameLink(n, link, previous_link) == link = previous_link

\* link == previous_link or both in the same collision domain
Contend(n, link, previous_link) ==
  \/ link = previous_link
  \/ /\ link_in_collision_domain(n, link) >= 0
     /\ link_in_collision_domain(n, link)
          = link_in_collision_domain(n, previous_link)

\* range(starting_time // period, int(ceil(ending_time / period)))
InstancesIn(n, f, starting_time, ending_time) ==
  (starting_time \div get_frame_period(n, f))
    .. (CeilDiv(ending_time, get_frame_period(n, f)) - 1)

\* the cells of frame f enumerated for the window
WindowCells(n, f, starting_time, ending_time) ==
  UNION {{OffsetName(f, l, i, r) :
            i \in InstancesIn(n, f, starting_time, ending_time),
            r \in 0..(num_replicas_of(n, l) - 1)} :
         l \in Range(get_frame_paths(n, f))}

\* one disjunction per pair of cells of two frames that contend
PairAsserts(n, f, pf, starting_time, ending_time) ==
  {OrApart(a, get_transmission_time(n, a), b, get_transmission_time(n, b)) :
     <<a, b>> \in {<<x, y>> \in
                     WindowCells(n, f, starting_time, ending_time)
                     \X WindowCells(n, pf, starting_time, ending_time) :
                   Contend(n, x.l, y.l)}}

\* the sensing and control blocks a frame has to avoid
SensingAsserts(n, f, starting_time, ending_time, off) ==
  {OrApart(a, get_transmission_time(n, a), b, get_transmission_time(n, b)) :
     <<a, b>> \in {<<x, y>> \in
                     WindowCells(n, f, starting_time, ending_time)
                     \X SensingCells(n) :
                   /\ x.l = y.l
                   /\ starting_time <= off[y]
                   /\ off[y] < ending_time}}

contention_free(n, frames, previous_frames, starting_time, ending_time, off) ==
  [crash |-> frames # <<>> /\ ~HasSensingControl(n),
   decls |-> {},
   asserts |->
     UNION {PairAsserts(n, frames[j].frame, frames[k].frame,
                        starting_time, ending_time) :
            <<j, k>> \in {<<x, y>> \in (1..Len(frames)) \X (1..Len(frames)) :
                            y < x}}
     \cup UNION {PairAsserts(n, frames[j].frame, previous_frames[k].frame,
                             starting_time, ending_time) :
                 <<j, k>> \in (1..Len(frames)) \X (1..Len(previous_frames))}
     \cup (IF HasSensingControl(n)
           THEN UNION {SensingAsserts(n, frames[j].frame, starting_time,
                                      ending_time, off) : j \in 1..Len(frames)}
           ELSE {})]

\* ----------------------------- Z3Synthesizer.path_dependent / switch_memory
ParentChild(n, frames) ==
  UNION {{<<f, l, get_children(n, f, l)[c]>> :
            c \in 1..Len(get_children(n, f, l))} :
         <<f, l>> \in {<<x, y>> \in Range(FrameIndices(frames)) \X (0..(Len(n.links) - 1)) :
                         y \in Range(get_frame_paths(n, x))}}

path_dependent(n, frames) ==
  [decls |-> {},
   asserts |-> {LeMinus(OffsetName(t[1], t[3], 0, 0), OffsetName(t[1], t[2], 0, 0),
                        get_minimum_time_switch(n)) : t \in ParentChild(n, frames)}]

\* a switch memory bound that lets the child leave at exactly max_switch
switch_memory_inclusive(n, frames) ==
  [decls |-> {},
   asserts |-> {GtMinus(OffsetName(t[1], t[3], 0, 0), OffsetName(t[1], t[2], 0, 0),
                        get_maximum_time_switch(n) + 1) : t \in ParentChild(n, frames)}]

switch_memory(n, frames) ==
  [decls |-> {},
   asserts |-> {GtMinus(OffsetName(t[1], t[3], 0, 0), OffsetName(t[1], t[2], 0, 0),
                        get_maximum_time_switch(n)) : t \in ParentChild(n, frames)}]

\* --------------------------------------- Z3Synthesizer.simultaneous_dispatch
\* a split test by the type of the links instead of the collision domains
SplitHasWireless(n, split) ==
  \E l \in Range(split) : n.links[l + 1].type = "wireless"

\* the local list "impossible" is not empty
SplitImpossible(n, split) ==
  \E d \in 1..Len(get_collision_domains(n)) :
    Range(split) \cap Range(get_collision_domains(n)[d]) # {}

\* Network.get_frame_paths_in_split: the paths of the split in tree order
get_frame_paths_in_split(n, f, split) ==
  SelectSeq(get_frame_paths(n, f), LAMBDA l : l \in Range(split))

SplitsOf(n, frames) ==
  {<<f, s>> \in Range(FrameIndices(frames)) \X
                UNION {Range(get_frame_splits(n, x)) : x \in Range(FrameIndices(frames))} :
     s \in Range(get_frame_splits(n, f))}

simultaneous_dispatch(n, frames) ==
  [crash |-> \E fs \in SplitsOf(n, frames) :
               /\ ~SplitImpossible(n, fs[2])
               /\ Len(get_frame_paths_in_split(n, fs[1], fs[2])) < Len(fs[2]),
   decls |-> {},
   asserts |->
     UNION {{EqVar(OffsetName(fs[1], get_frame_paths_in_split(n, fs[1], fs[2])[j], 0, 0),
                   OffsetName(fs[1], get_frame_paths_in_split(n, fs[1], fs[2])[j + 1], 0, 0)) :
               j \in 1..(Len(get_frame_paths_in_split(n, fs[1], fs[2])) - 1)} :
            fs \in {x \in SplitsOf(n, frames) : ~SplitImpossible(n, x[2])}}]

\* ------------------------------------ Z3Synthesizer.dependencies_constraints
\* the frames of the batch whose dependency linker has a parent, as
\* <<successor node, predecessor node>> of the dependency tree t
LinkedDependencies(t, frames) ==
  {<<frames[j].linker, t.nodes[frames[j].linker].parent>> :
     j \in {x \in 1..Len(frames) :
              /\ frames[x].linker # 0
              /\ t.nodes[frames[x].linker].parent # 0}}

NodeName(t, d) == OffsetName(t.nodes[d].frame_index, t.nodes[d].link_index, 0, 0)

\* the predecessor is declared again with its stored value
ReintroducePredecessor(t, frames, sp, starting_time, off) ==
  /\ off[NodeName(t, sp[2])] # None
  /\ off[NodeName(t, sp[2])] < starting_time
  /\ t.nodes[sp[2]].frame_index \notin Range(FrameIndices(frames))

DependencyAsserts(t, sp) ==
  (IF t.nodes[sp[1]].deadline > 0
   THEN {GtMinus(NodeName(t, sp[1]), NodeName(t, sp[2]), t.nodes[sp[1]].deadline),
         LtVar(NodeName(t, sp[1]), NodeName(t, sp[2]))}
   ELSE {})
  \cup
  (IF t.nodes[sp[1]].waiting > 0
   THEN {LtMinus(NodeName(t, sp[1]), NodeName(t, sp[2]), t.nodes[sp[1]].waiting)}
   ELSE {})

dependencies_constraints(n, frames, starting_time, off, named) ==
  LET t == get_dependencies(n)
      deps == LinkedDependencies(t, frames)
  IN [crash |-> \E sp \in deps :
                  \/ NodeName(t, sp[2]) \notin DOMAIN off
                  \/ NodeName(t, sp[1]) \notin DOMAIN off
                  \/ /\ NodeName(t, sp[2]) \notin named
                     /\ DependencyAsserts(t, sp) # {},
      decls |-> {NodeName(t, sp[2]) :
                   sp \in {x \in deps : /\ NodeName(t, x[2]) \in DOMAIN off
                                        /\ ReintroducePredecessor(t, frames, x,
                                                                  starting_time, off)}},
      asserts |->
        {EqConst(NodeName(t, sp[2]), off[NodeName(t, sp[2])]) :
           sp \in {x \in deps : /\ NodeName(t, x[2]) \in DOMAIN off
                                /\ ReintroducePredecessor(t, frames, x,
                                                          starting_time, off)}}
        \cup UNION {DependencyAsserts(t, sp) : sp \in deps}]

\* -------------------- Z3Synthesizer.re_init_variables / load_fixed_values
CellsOf(n, frames) == UNION {FrameCells(n, f) : f \in Range(FrameIndices(frames))}

\* starting_time <= value < ending_time
InWindow(value, starting_time, ending_time) ==
  starting_time <= value /\ value < ending_time
\* starting_time < value < ending_time
InsideWindow(value, starting_time, ending_time) ==
  starting_time < value /\ value < ending_time

re_init_variables(n, frames, starting_time, ending_time, off) ==
  LET cells == {c \in CellsOf(n, frames) :
                  InWindow(off[c], starting_time, ending_time)}
      sensing == {c \in SensingCells(n) :
                    InWindow(off[c], starting_time, ending_time)}
  IN [crash |-> \E c \in CellsOf(n, frames) \cup SensingCells(n) : off[c] = None,
      decls |-> cells \cup {SensingShortName(c.l, c.i) : c \in sensing},
      asserts |-> {EqConst(c, off[c]) : c \in cells}
                  \cup {EqConst(SensingShortName(c.l, c.i), off[c]) : c \in sensing},
      init_frames |-> SelectSeq(frames, LAMBDA b : \E c \in cells : c.f = b.frame)]

load_fixed_values(n, frames, starting_time, ending_time, off) ==
  LET cells == {c \in CellsOf(n, frames) :
                  InsideWindow(off[c], starting_time, ending_time)}
  IN [crash |-> \E c \in CellsOf(n, frames) : off[c] = None,
      decls |-> cells,
      asserts |-> {EqConst(c, off[c]) : c \in cells}]

\* ----------------------------------------------------------- the decider
\* The external decider on the file written: an error when a name is used
\* that the file does not declare, or is declared twice; otherwise every
\* integer model of the assertions is a possible answer.
Referenced(asserts) ==
  {c.a : c \in asserts} \cup ({c.b : c \in asserts} \ {NoName})

DeciderError(decls, dups, asserts) ==
  dups # {} \/ ~(Referenced(asserts) \subseteq decls)

Holds(c, m) ==
  CASE c.op = "<= a (- k)" -> m[c.a] <= -c.k
    [] c.op = "> a (- k)" -> m[c.a] > -c.k
    [] c.op = "= a (- k)" -> m[c.a] = -c.k
    [] c.op = "= a (- b k)" -> m[c.a] = m[c.b] - c.k
    [] c.op = "<= a (- b k)" -> m[c.a] <= m[c.b] - c.k
    [] c.op = "> a (- b k)" -> m[c.a] > m[c.b] - c.k
    [] c.op = "< a (- b k)" -> m[c.a] < m[c.b] - c.k
    [] c.op = "< a b" -> m[c.a] < m[c.b]
    [] c.op = "= a b" -> m[c.a] = m[c.b]
    [] c.op = "or (> (- a k) b) (<= a (- b k2))" ->
         (m[c.a] - c.k > m[c.b]) \/ (m[c.a] <= m[c.b] - c.k2)

\* variables fixed by a constant, bounded by a range, defined from another
FixedBy(v, asserts) == {c \in asserts : c.op = "= a (- k)" /\ c.a = v}
UpperBy(v, asserts) == {c \in asserts : c.op = "<= a (- k)" /\ c.a = v}
LowerBy(v, asserts) == {c \in asserts : c.op = "> a (- k)" /\ c.a = v}
DefinedBy(v, asserts) == {c \in asserts : c.op = "= a (- b k)" /\ c.a = v}
Ranged(decls, asserts) ==
  {v \in decls : FixedBy(v, asserts) = {} /\ UpperBy(v, asserts) # {}
                 /\ LowerBy(v, asserts) # {}}
Interval(v, asserts) ==
  {x \in (MinOf({-c.k : c \in LowerBy(v, asserts)}) + 1)
           .. MinOf({-c.k : c \in UpperBy(v, asserts)}) :
     /\ \A c \in UpperBy(v, asserts) : x <= -c.k
     /\ \A c \in LowerBy(v, asserts) : x > -c.k}

RECURSIVE Choices(_, _)
Choices(vars, asserts) ==
  IF vars = {} THEN {<<>>}
  ELSE LET v == CHOOSE x \in vars : TRUE
       IN {(v :> x) @@ g : x \in Interval(v, asserts),
                           g \in Choices(vars \ {v}, asserts)}

\* the assignment of every declared name that a choice of the ranged ones forces
Complete(decls, asserts, g) ==
  LET base == [v \in decls |->
                 IF FixedBy(v, asserts) # {}
                 THEN -((CHOOSE c \in FixedBy(v, asserts) : TRUE).k)
                 ELSE IF v \in DOMAIN g THEN g[v] ELSE 0]
  IN [v \in decls |->
        IF FixedBy(v, asserts) = {} /\ v \notin DOMAIN g /\ DefinedBy(v, asserts) # {}
        THEN LET c == CHOOSE x \in DefinedBy(v, asserts) : TRUE
             IN base[c.b] - c.k
        ELSE base[v]]

Models(decls, asserts) ==
  {m \in {Complete(decls, asserts, g) : g \in Choices(Ranged(decls, asserts), asserts)} :
     \A c \in asserts : Holds(c, m)}

\* save_solution: int(words[2]) or, when the value is written (- v), int(words[3])
Decode(v) == Abs(v)

\* ------------------------------------------------------------ frame queue
FrameBlock(frame_index, absolute_deadline, linker) ==
  [frame |-> frame_index, deadline |-> absolute_deadline, linker |-> linker]

\* a queue built in the reverse of the natural index order
PlainQueueReversed(n) ==
  [j \in 1..get_number_frames(n) |->
     FrameBlock(get_number_frames(n) - j, None,
                get_dependency_by_frame(get_dependencies(n),
                                        get_number_frames(n) - j))]

\* the queue of one_shot_scheduler and incremental_approach
PlainQueue(n) ==
  [j \in 1..get_number_frames(n) |->
     FrameBlock(j - 1, None, get_dependency_by_frame(get_dependencies(n), j - 1))]

\* list.sort(key=deadline): stable, ascending
RECURSIVE InsertByDeadline(_, _)
InsertByDeadline(sorted, b) ==
  IF sorted = <<>> THEN <<b>>
  ELSE IF sorted[Len(sorted)].deadline <= b.deadline THEN Append(sorted, b)
  ELSE Append(InsertByDeadline(SubSeq(sorted, 1, Len(sorted) - 1), b),
              sorted[Len(sorted)])
RECURSIVE SortByDeadline(_, _)
SortByDeadline(sorted, rest) ==
  IF rest = <<>> THEN sorted
  ELSE SortByDeadline(InsertByDeadline(sorted, Head(rest)), Tail(rest))

\* the queue of segmented_approach; DependencyNode has no method
\* get_maximum_waiting_time_node, so a frame with a dependency node raises
SegmentedQueueRaises(n) ==
  \E f \in 0..(get_number_frames(n) - 1) :
    get_dependency_by_frame(get_dependencies(n), f) # 0
SegmentedQueue(n) ==
  SortByDeadline(<<>>, [j \in 1..get_number_frames(n) |->
                          FrameBlock(j - 1, get_frame_deadline(n, j - 1) - 0, 0)])

\* ------------------------------------------------- Network.check_schedule
\* the verifier on the offset grid off: TRUE when no check returns False
check_schedule(n, off) ==
  LET frames == 0..(n.num_frames - 1)
      \* offset < other_offset + other_time and offset + time > other_offset
      Collide(a, b) ==
        /\ off[a] < off[b] + get_transmission_time(n, b)
        /\ off[a] + get_transmission_time(n, a) > off[b]
      \* the node of the dependency tree checked for frame f: the first
      \* node of the frame, when it has a parent; 0 when there is none
      CheckedDependency(f) ==
        IF n.num_dependencies > 0
        THEN LET t == get_dependencies(n)
                 d == get_dependency_by_frame(t, f)
             IN IF d # 0 /\ t.nodes[d].parent # 0 THEN d ELSE 0
        ELSE 0
      contention ==
        \E f, g \in frames : f # g /\
          \E a \in FrameCells(n, f), b \in FrameCells(n, g) :
            Contend(n, a.l, b.l) /\ Collide(a, b)
      sensing ==
        /\ n.sensing_control_period # 0
        /\ \E f \in frames : \E a \in FrameCells(n, f) :
             /\ link_in_collision_domain(n, a.l) >= 0
             /\ \E b \in SensingCells(n) : Collide(a, b)
      period ==
        \E f \in frames : \E a \in FrameCells(n, f) :
          off[a] > get_frame_period(n, f) * (a.i + 1)
      deadline ==
        \E f \in frames : \E a \in FrameCells(n, f) :
          off[a] > get_frame_period(n, f) * a.i + get_frame_deadline(n, f)
      replicas ==
        \E f \in frames : \E a \in FrameCells(n, f) :
          /\ a.r > 0
          /\ LET distance == off[a] - off[OffsetName(f, a.l, a.i, a.r - 1)]
             IN \/ /\ n.replica_policy = "Spread"
                   /\ distance # n.replica_interval
                \/ /\ n.replica_policy = "Continuous"
                   /\ distance # get_transmission_time(n, a)
      instances ==
        \E f \in frames : \E a \in FrameCells(n, f) :
          /\ a.i > 0
          /\ off[a] - off[OffsetName(f, a.l, a.i - 1, a.r)] # get_frame_period(n, f)
      children ==
        \E f \in frames : \E a \in FrameCells(n, f) :
          LET cs == get_children(n, f, a.l)
          IN \E k \in 1..Len(cs) :
               \* an IndexError (the child has no replica a.r) skips the child
               /\ a.r < num_replicas_of(n, cs[k])
               /\ LET child == off[OffsetName(f, cs[k], a.i, a.r)]
                      distance == child - off[a]
                  IN \/ distance < n.minimum_time_switch
                     \/ distance > n.maximum_time_switch
                     \/ /\ k > 1
                        /\ a.r < num_replicas_of(n, cs[k - 1])
                        /\ off[OffsetName(f, cs[k - 1], a.i, a.r)] # child
                        /\ num_replicas_of(n, a.l) = 0
      dependencies ==
        \E f \in frames :
          LET d == CheckedDependency(f)
          IN /\ d # 0
             /\ LET t == get_dependencies(n)
                    node == t.nodes[d]
                    parent == t.nodes[node.parent]
                    distance == off[OffsetName(f, node.link_index, 0, 0)]
                                - off[OffsetName(parent.frame_index,
                                                 parent.link_index, 0, 0)]
                IN \/ distance < node.waiting
                   \/ node.deadline # 0 /\ distance > node.deadline
  IN ~(contention \/ sensing \/ period \/ deadline \/ replicas \/ instances
       \/ children \/ dependencies)

\* ----------------------------------------------------------- input networks
\* Times are small so that the decider's models can be enumerated in full:
\* links of 100000 Mb/s carry a frame of 100 bytes in 1 ns.
Wired == [speed |-> 100000, type |-> "wired"]
Wireless == [speed |-> 100000, type |-> "wireless"]
\* links 0, 1, 2 wired; links 3, 4 wireless and in collision domain 0;
\* link 5 wireless and in no collision domain
Links == <<Wired, Wired, Wired, Wireless, Wireless, Wireless>>

FrameOf(period, deadline, size, paths, splits) ==
  [period |-> period, deadline |-> deadline, size |-> size,
   paths |-> paths, splits |-> splits]
DependencyOf(pf, pl, sf, sl, waiting, deadline) ==
  [predecessor_frame |-> pf, predecessor_link |-> pl,
   successor_frame |-> sf, successor_link |-> sl,
   waiting |-> waiting, deadline |-> deadline]

NetworkOf(hyper, frames, deps) ==
  [num_frames |-> Len(frames), frames |-> frames,
   links |-> Links, collision_domains |-> << <<3, 4>> >>,
   list_replicas |-> <<1>>,
   replica_policy |-> "Spread", replica_interval |-> 2,
   minimum_time_switch |-> 1, maximum_time_switch |-> 3,
   hyper_period |-> hyper,
   sensing_control_period |-> hyper, sensing_control_time |-> 1,
   dependencies |-> deps, num_dependencies |-> Len(deps)]

\* two frames of different periods on one wired link
NetShared ==
  NetworkOf(8, <<FrameOf(4, 4, 100, << <<0>> >>, <<>>),
                 FrameOf(8, 8, 200, << <<0>> >>, <<>>)>>, <<>>)
\* one multicast frame: link 0, then links 1 and 2 dispatched together
NetSplit ==
  NetworkOf(8, <<FrameOf(8, 5, 100, << <<0, 1>>, <<0, 2>> >>, << <<1, 2>> >>)>>, <<>>)
\* one multicast frame: link 0, then the wired links 1 and 2 and the
\* wireless links 3 and 4 of one domain, each pair a split
NetWireless(policy) ==
  [NetworkOf(16, <<FrameOf(8, 6, 100,
                           << <<0, 1>>, <<0, 2>>, <<0, 3>>, <<0, 4>> >>,
                           << <<1, 2>>, <<3, 4>> >>)>>, <<>>)
     EXCEPT !.replica_policy = policy]
\* one multicast frame whose split holds a wireless link of no domain
NetFreeWireless ==
  NetworkOf(8, <<FrameOf(8, 6, 100, << <<0, 1>>, <<0, 5>> >>, << <<1, 5>> >>)>>, <<>>)
\* two frames on the two wireless links of the domain
NetDomain ==
  NetworkOf(8, <<FrameOf(8, 5, 100, << <<3>> >>, <<>>),
                 FrameOf(8, 8, 100, << <<4>> >>, <<>>)>>, <<>>)
\* a dependency 0 -> 1, and a chain 0 -> 1 -> 2 given parent dependency
\* first or child dependency first (with the deadline on either of the two)
NetDependency ==
  NetworkOf(8, <<FrameOf(8, 3, 100, << <<0>> >>, <<>>),
                 FrameOf(8, 6, 100, << <<1>> >>, <<>>)>>,
            <<DependencyOf(0, 0, 1, 1, 1, 3)>>)
NetChain(order) ==
  NetworkOf(8, <<FrameOf(8, 3, 100, << <<0>> >>, <<>>),
                 FrameOf(8, 5, 100, << <<1>> >>, <<>>),
                 FrameOf(8, 7, 100, << <<2>> >>, <<>>)>>,
            IF order = "top-down"
            THEN <<DependencyOf(0, 0, 1, 1, 1, 0), DependencyOf(1, 1, 2, 2, 0, 3)>>
            ELSE IF order = "bottom-up"
            THEN <<DependencyOf(1, 1, 2, 2, 0, 3), DependencyOf(0, 0, 1, 1, 1, 0)>>
            ELSE <<DependencyOf(1, 1, 2, 2, 1, 0), DependencyOf(0, 0, 1, 1, 0, 3)>>)
\* one frame that fills its period exactly (transmission = deadline = period)
NetTight ==
  NetworkOf(4, <<FrameOf(4, 4, 400, << <<0>> >>, <<>>)>>, <<>>)
\* two frames that need 3 of 4 ns each on the same link: no schedule
NetOverload ==
  NetworkOf(4, <<FrameOf(4, 4, 300, << <<0>> >>, <<>>),
                 FrameOf(4, 4, 300, << <<0>> >>, <<>>)>>, <<>>)
\* no sensing and control reservation configured
NetNoSensing ==
  [NetworkOf(8, <<FrameOf(8, 8, 100, << <<0>> >>, <<>>)>>, <<>>)
     EXCEPT !.sensing_control_period = 0, !.sensing_control_time = 0]
\* one frame on link 0
NetSingle ==
  NetworkOf(8, <<FrameOf(8, 3, 100, << <<0>> >>, <<>>)>>, <<>>)

\* k more frames, each alone on a wired link of its own, deadline 2
Pad(n, k) ==
  [n EXCEPT !.num_frames = @ + k,
            !.links = @ \o [j \in 1..k |-> Wired],
            !.frames = @ \o [j \in 1..k |->
                               FrameOf(n.hyper_period, 2, 100,
                                       << <<Len(n.links) + j - 1>> >>, <<>>)]]

\* frame 0 and the last frame share link 0, four frames in between; with
\* the dependency, frame 0 -> last frame (pred "first") or the reverse
NetTwoSlices(dep) ==
  LET base == Pad(NetworkOf(8, <<FrameOf(4, 3, 100, << <<0>> >>, <<>>)>>, <<>>), 4)
      last == FrameOf(8, 8, 200, << <<0>> >>, <<>>)
      n == [base EXCEPT !.num_frames = 6, !.frames = Append(@, last)]
  IN [n EXCEPT !.dependencies =
                 IF dep = "first" THEN <<DependencyOf(0, 0, 5, 0, 1, 0)>>
                 ELSE IF dep = "last" THEN <<DependencyOf(5, 0, 0, 0, 1, 0)>>
                 ELSE <<>>,
               !.num_dependencies = IF dep = "none" THEN 0 ELSE 1]

\* a link of 1000 Mb/s: a frame of s bytes takes s ns
Slow == [speed |-> 1000, type |-> "wired"]
\* a hyper-period of six segments. Frames 0 and 1 share the slow link 0
\* and take almost a whole segment each; frame 2 is alone on the slow
\* link 1. Frame 0 has the given period, frame 1 a period of two segments.
NetWindows(period) ==
  [NetworkOf(6 * segment_size,
             <<FrameOf(period, segment_size + 500000, 999998, << <<0>> >>, <<>>),
               FrameOf(2 * segment_size, 2 * segment_size, 999998, << <<0>> >>, <<>>),
               FrameOf(6 * segment_size, 2 * segment_size, 999998, << <<1>> >>, <<>>)>>,
             <<>>)
     EXCEPT !.links = <<Slow, Slow, Wired, Wireless, Wireless, Wireless>>]

Networks ==
  {NetShared, NetSplit, NetDomain, NetDependency, NetTight, NetNoSensing,
   NetFreeWireless}
  \cup {NetWireless(p) : p \in {"Spread", "Continuous"}}
  \cup {NetChain(o) : o \in {"top-down", "bottom-up", "deadline-last"}}
  \cup {NetTwoSlices(d) : d \in {"none", "first", "last"}}
  \cup {Pad(b, k) : b \in {NetSingle, NetOverload, NetTwoSlices("none")},
                    k \in 0..MaxFill}

\* inputs longer than one segment; their formulas can be enumerated in
\* full only window by window, so they are given to segmented mode only
WindowNetworks ==
  {Pad(NetWindows(p), k) : p \in {3 * segment_size, 6 * segment_size},
                           k \in 3..5}

\* the frame sizes of the Ethernet standard, in bytes
MinSize == 72
MaxSize == 1526
\* one frame of every size alone on a wired link 0 of every speed, with a
\* period and a deadline that leave room for any transmission time
SizedNetworks ==
  {[NetworkOf(2 * segment_size,
              <<FrameOf(2 * segment_size, 2 * segment_size, size, << <<0>> >>, <<>>)>>,
              <<>>)
      EXCEPT !.links = <<[speed |-> speed, type |-> "wired"], Wired, Wired,
                         Wireless, Wireless, Wireless>>] :
   size \in MinSize..MaxSize, speed \in {10, 100, 1000, 2500}}

\* ------------------------------------------------------------------ state
VARIABLES
  net,                  \* the input network (the XML file given to the run)
  mode,                 \* which strategy of Scheduler was called
  pc,                   \* the statement the strategy is about to execute
  outcome,              \* "none", "Scheduled", "Infeasible" or "Error"
  frame_queue, current_frame_queue, previous_frame_queue,
  starting_frame, step_size, starting_time, ending_time,
  free_space_segment, all_frames_schedules,
  offset,               \* TreePath.__offset of every path, by name
  name_offset,          \* the names TreePath.__name_offset holds (not None)
  smt_open,             \* Constraints.smt is open for writing
  smt_decls, smt_dups, smt_asserts,   \* what Constraints.smt holds
  sol_open,             \* Solution.smt is open
  solution,             \* what Solution.smt holds
  history,              \* the decider rounds so far (batch, window, answer)
  verdict               \* what Scheduler.check_schedule printed, "none" before

strategy == <<frame_queue, current_frame_queue, previous_frame_queue,
              starting_frame, step_size, starting_time, ending_time,
              free_space_segment, all_frames_schedules>>
smt_file == <<smt_open, smt_decls, smt_dups, smt_asserts>>
sol_file == <<sol_open, solution, history>>
store == <<offset, name_offset>>
vars == <<net, mode, pc, outcome, strategy, store, smt_file, sol_file, verdict>>

\* Scheduler.__init__, before any strategy is called
Init ==
  /\ net \in Networks \cup WindowNetworks
  /\ mode = "none" /\ pc = "idle" /\ outcome = "none"
  /\ frame_queue = <<>> /\ current_frame_queue = <<>>
  /\ previous_frame_queue = <<>>
  /\ starting_frame = 0 /\ step_size = 0
  /\ starting_time = 0 /\ ending_time = 0
  /\ free_space_segment = TRUE /\ all_frames_schedules = FALSE
  /\ offset = <<>> /\ name_offset = {}
  /\ smt_open = FALSE /\ smt_decls = {} /\ smt_dups = {} /\ smt_asserts = {}
  /\ sol_open = FALSE /\ solution = [sat |-> FALSE, model |-> <<>>]
  /\ history = <<>>
  /\ verdict = "none"

\* an uncaught Python exception ends the run
Raise ==
  /\ pc' = "error" /\ outcome' = "Error"
  /\ UNCHANGED <<net, verdict, mode, strategy, store, smt_file, sol_file>>

\* Network.parse_network_xml (init_offset: every cell None) and
\* Z3Synthesizer.__init__ (a new Constraints.smt)
ParseAndOpen ==
  /\ offset' = [c \in AllCells(net) |-> None]
  /\ name_offset' = {}
  /\ smt_open' = TRUE /\ smt_decls' = {} /\ smt_dups' = {} /\ smt_asserts' = {}

\* a write of declarations and assertions to the open Constraints.smt
WriteRaises(r) == ~smt_open /\ (r.decls # {} \/ r.asserts # {})
\* a write that keeps the assertions and loses the declarations
WriteAssertsOnly(r) ==
  /\ smt_asserts' = smt_asserts \cup r.asserts
  /\ UNCHANGED <<smt_open, smt_decls, smt_dups>>

Write(r) ==
  /\ smt_decls' = smt_decls \cup r.decls
  /\ smt_dups' = smt_dups \cup (smt_decls \cap r.decls)
  /\ smt_asserts' = smt_asserts \cup r.asserts
  /\ UNCHANGED smt_open

\* ------------------------------------------------------ strategy entry points
\* Scheduler.one_shot_scheduler, up to the first emitter call (explored on
\* the inputs of one segment, see WindowNetworks)
OneShotScheduler ==
  /\ pc = "idle" /\ net \in Networks \cup SizedNetworks
  /\ mode' = "one_shot"
  /\ ParseAndOpen
  /\ frame_queue' = PlainQueue(net)
  /\ current_frame_queue' = PlainQueue(net)
  /\ previous_frame_queue' = <<>>
  /\ starting_time' = 0
  /\ ending_time' = get_hyper_period(net)
  /\ pc' = "init_variables"
  /\ UNCHANGED <<net, verdict, outcome, starting_frame, step_size, free_space_segment,
                 all_frames_schedules, sol_file>>

\* Scheduler.incremental_approach, up to the loop (explored on the inputs
\* of one segment, see WindowNetworks)
IncrementalApproach ==
  /\ pc = "idle" /\ net \in Networks
  /\ mode' = "incremental"
  /\ ParseAndOpen
  /\ frame_queue' = PlainQueue(net)
  /\ starting_frame' = 0
  /\ step_size' = step_size_default
  /\ starting_time' = 0
  /\ ending_time' = get_hyper_period(net)
  /\ pc' = "incremental_loop"
  /\ UNCHANGED <<net, verdict, outcome, current_frame_queue, previous_frame_queue,
                 free_space_segment, all_frames_schedules, sol_file>>

\* Scheduler.segmented_approach, up to the outer loop
SegmentedApproach ==
  /\ pc = "idle"
  /\ mode' = "segmented"
  /\ ParseAndOpen
  /\ IF SegmentedQueueRaises(net)
     THEN /\ pc' = "error" /\ outcome' = "Error"
          /\ UNCHANGED <<strategy>>
     ELSE /\ frame_queue' = SegmentedQueue(net)
          /\ free_space_segment' = TRUE
          /\ all_frames_schedules' = FALSE
          /\ step_size' = step_size_default
          /\ starting_frame' = 0
          /\ starting_time' = 0
          /\ ending_time' = segment_size
          /\ previous_frame_queue' = <<>>
          /\ pc' = "segmented_outer"
          /\ UNCHANGED <<outcome, current_frame_queue>>
  /\ UNCHANGED <<net, verdict, sol_file>>

\* ------------------------------------------------------------ the emitters
InitVariables ==
  /\ pc = "init_variables"
  /\ LET r == init_variables(net, current_frame_queue, starting_time, ending_time)
     IN IF WriteRaises(r) THEN Raise
        ELSE /\ Write(r)
             /\ name_offset' = name_offset \cup r.decls
             /\ offset' = [c \in DOMAIN offset |->
                             IF InitSensing(net, starting_time) /\ c \in SensingCells(net)
                             THEN c.i * get_sensing_control_period(net)
                             ELSE offset[c]]
             /\ pc' = "contention_free"
             /\ UNCHANGED <<net, verdict, mode, outcome, strategy, sol_file>>

ContentionFree ==
  /\ pc = "contention_free"
  /\ LET r == contention_free(net, current_frame_queue, previous_frame_queue,
                              starting_time, ending_time, offset)
     IN IF r.crash \/ WriteRaises(r) THEN Raise
        ELSE /\ Write(r)
             /\ pc' = "path_dependent"
             /\ UNCHANGED <<net, verdict, mode, outcome, strategy, store, sol_file>>

PathDependent ==
  /\ pc = "path_dependent"
  /\ LET r == path_dependent(net, current_frame_queue)
     IN IF WriteRaises(r) THEN Raise
        ELSE /\ Write(r)
             /\ pc' = "switch_memory"
             /\ UNCHANGED <<net, verdict, mode, outcome, strategy, store, sol_file>>

SwitchMemory ==
  /\ pc = "switch_memory"
  /\ LET r == switch_memory(net, current_frame_queue)
     IN IF WriteRaises(r) THEN Raise
        ELSE /\ Write(r)
             /\ pc' = "simultaneous_dispatch"
             /\ UNCHANGED <<net, verdict, mode, outcome, strategy, store, sol_file>>

SimultaneousDispatch ==
  /\ pc = "simultaneous_dispatch"
  /\ LET r == simultaneous_dispatch(net, current_frame_queue)
     IN IF r.crash \/ WriteRaises(r) THEN Raise
        ELSE /\ Write(r)
             /\ pc' = "dependencies_constraints"
             /\ UNCHANGED <<net, verdict, mode, outcome, strategy, store, sol_file>>

DependenciesConstraints ==
  /\ pc = "dependencies_constraints"
  /\ LET r == dependencies_constraints(net, current_frame_queue, starting_time,
                                       offset, name_offset)
     IN IF r.crash \/ WriteRaises(r) THEN Raise
        ELSE /\ Write(r)
             /\ pc' = "check_satisfiability"
             /\ UNCHANGED <<net, verdict, mode, outcome, strategy, store, sol_file>>

\* ------------------------------------------- Z3Synthesizer.check_satisfiability
\* writes (check-sat), closes the file, runs the decider, opens Solution.smt
\* and returns whether its first line is "sat"
CheckSatisfiability ==
  /\ pc = "check_satisfiability"
  /\ Len(history) < MaxRounds
  /\ IF ~smt_open THEN Raise
     ELSE /\ smt_open' = FALSE
          /\ sol_open' = TRUE
          /\ LET answers == IF DeciderError(smt_decls, smt_dups, smt_asserts)
                            THEN {}
                            ELSE Models(smt_decls, smt_asserts)
             IN IF answers = {}
                THEN solution' = [sat |-> FALSE, model |-> <<>>]
                ELSE \E m \in answers : solution' = [sat |-> TRUE, model |-> m]
          /\ history' = Append(history,
                               [frames |-> FrameIndices(current_frame_queue),
                                starting_time |-> starting_time,
                                ending_time |-> ending_time,
                                sat |-> solution'.sat])
          /\ pc' = IF solution'.sat THEN "save_solution" ELSE "unsat"
          /\ UNCHANGED <<net, verdict, mode, outcome, strategy, store,
                         smt_decls, smt_dups, smt_asserts>>

\* Z3Synthesizer.save_solution: the values of the batch's frames, decoded
save_solution(frames, off, model) ==
  [c \in DOMAIN off |->
     IF c \in DOMAIN model /\ c.kind = "Offset"
        /\ c.f \in Range(FrameIndices(frames))
     THEN Decode(model[c]) ELSE off[c]]

SaveSolution ==
  /\ offset' = save_solution(current_frame_queue, offset, solution.model)
  /\ sol_open' = FALSE
  /\ UNCHANGED <<name_offset, solution, history, smt_file>>

\* ------------------------------------------------------------------ one-shot
OneShotSat ==
  /\ pc = "save_solution" /\ mode = "one_shot"
  /\ SaveSolution
  /\ pc' = "generate_schedule_xml"
  /\ UNCHANGED <<net, verdict, mode, outcome, strategy>>

\* one-shot and incremental: return False
ReturnInfeasible ==
  /\ pc = "unsat" /\ mode \in {"one_shot", "incremental"}
  /\ pc' = "returned" /\ outcome' = "Infeasible"
  /\ UNCHANGED <<net, verdict, mode, strategy, store, smt_file, sol_file>>

\* Scheduler.__generate_schedule_xml and return True; value += int(...)
\* raises on a cell that is None
GenerateScheduleXml ==
  /\ pc = "generate_schedule_xml"
  /\ IF \E c \in DOMAIN offset : offset[c] = None THEN Raise
     ELSE /\ pc' = "returned" /\ outcome' = "Scheduled"
          /\ UNCHANGED <<net, verdict, mode, strategy, store, smt_file, sol_file>>

\* --------------------------------------------------------------- incremental
IncrementalLoop ==
  /\ pc = "incremental_loop"
  /\ IF starting_frame < get_number_frames(net)
     THEN /\ current_frame_queue' =
               PySlice(frame_queue, starting_frame, starting_frame + step_size)
          /\ previous_frame_queue' =
               IF starting_frame - 1 >= 0
               THEN PySlice(frame_queue, 0, starting_frame) ELSE <<>>
          /\ pc' = "init_variables"
     ELSE /\ pc' = "generate_schedule_xml"
          /\ UNCHANGED <<current_frame_queue, previous_frame_queue>>
  /\ UNCHANGED <<net, verdict, mode, outcome, frame_queue, starting_frame, step_size,
                 starting_time, ending_time, free_space_segment,
                 all_frames_schedules, store, smt_file, sol_file>>

IncrementalSat ==
  /\ pc = "save_solution" /\ mode = "incremental"
  /\ SaveSolution
  /\ starting_frame' = starting_frame + step_size
  /\ pc' = "load_fixed_values"
  /\ UNCHANGED <<net, verdict, mode, outcome, frame_queue, current_frame_queue,
                 previous_frame_queue, step_size, starting_time, ending_time,
                 free_space_segment, all_frames_schedules>>

LoadFixedValues ==
  /\ pc = "load_fixed_values"
  /\ LET r == load_fixed_values(net, PySlice(frame_queue, 0, starting_frame), 0,
                                get_hyper_period(net), offset)
     IN IF r.crash THEN Raise
        ELSE /\ smt_open' = TRUE
             /\ smt_decls' = r.decls /\ smt_dups' = {} /\ smt_asserts' = r.asserts
             /\ pc' = "incremental_loop"
             /\ UNCHANGED <<net, verdict, mode, outcome, strategy, store, sol_file>>

\* ----------------------------------------------------------------- segmented
SegmentedOuter ==
  /\ pc = "segmented_outer"
  /\ IF ~all_frames_schedules /\ starting_time < get_hyper_period(net)
     THEN /\ ending_time' = Min2(ending_time, get_hyper_period(net))
          /\ pc' = IF starting_frame > 0 THEN "re_init_variables"
                   ELSE "segmented_inner"
     ELSE /\ pc' = "generate_schedule_xml"
          /\ UNCHANGED ending_time
  /\ UNCHANGED <<net, verdict, mode, outcome, frame_queue, current_frame_queue,
                 previous_frame_queue, starting_frame, step_size, starting_time,
                 free_space_segment, all_frames_schedules, store, smt_file,
                 sol_file>>

ReInitVariables ==
  /\ pc = "re_init_variables"
  /\ LET r == re_init_variables(net, PySlice(frame_queue, 0, starting_frame),
                                starting_time, ending_time, offset)
     IN IF r.crash THEN Raise
        ELSE /\ smt_open' = TRUE
             /\ smt_decls' = r.decls /\ smt_dups' = {} /\ smt_asserts' = r.asserts
             /\ previous_frame_queue' = r.init_frames
             /\ pc' = "segmented_inner"
             /\ UNCHANGED <<net, verdict, mode, outcome, frame_queue, current_frame_queue,
                            starting_frame, step_size, starting_time, ending_time,
                            free_space_segment, all_frames_schedules, store,
                            sol_file>>

\* the step_size adjustment of the inner loop
AdjustStep(n, sf, step) ==
  IF sf + step >= get_number_frames(n) THEN get_number_frames(n) - step ELSE step

SegmentedInner ==
  /\ pc = "segmented_inner"
  /\ IF free_space_segment
     THEN /\ step_size' = AdjustStep(net, starting_frame, step_size)
          /\ current_frame_queue' =
               PySlice(frame_queue, starting_frame, starting_frame + step_size')
          /\ pc' = "init_variables"
          /\ UNCHANGED free_space_segment
     ELSE /\ free_space_segment' = TRUE
          /\ pc' = "segmented_outer"
          /\ UNCHANGED <<step_size, current_frame_queue>>
  /\ UNCHANGED <<net, verdict, mode, outcome, frame_queue, previous_frame_queue,
                 starting_frame, starting_time, ending_time,
                 all_frames_schedules, store, smt_file, sol_file>>

\* the end test of the sat branch
AllScheduled(sf, step, queue) == (sf + step + 1) >= Len(queue)

SegmentedSat ==
  /\ pc = "save_solution" /\ mode = "segmented"
  /\ SaveSolution
  /\ all_frames_schedules' =
       (all_frames_schedules \/ AllScheduled(starting_frame, step_size, frame_queue))
  /\ free_space_segment' =
       (free_space_segment /\ ~AllScheduled(starting_frame, step_size, frame_queue))
  /\ starting_frame' = starting_frame + step_size
  /\ pc' = "re_init_variables"
  /\ UNCHANGED <<net, verdict, mode, outcome, frame_queue, current_frame_queue,
                 previous_frame_queue, step_size, starting_time, ending_time>>

\* a segment that starts one ns after the end of the previous one
NextSegmentGap(ending) ==
  [starting_time |-> ending + 1, ending_time |-> ending + segment_size]

\* starting_time = ending_time; ending_time += segment_size
NextSegment(ending) ==
  [starting_time |-> ending, ending_time |-> ending + segment_size]

\* the unsat branch: the segment is full
SegmentFull ==
  /\ pc = "unsat" /\ mode = "segmented"
  /\ free_space_segment' = FALSE
  /\ starting_time' = NextSegment(ending_time).starting_time
  /\ ending_time' = NextSegment(ending_time).ending_time
  /\ pc' = "segmented_inner"
  /\ UNCHANGED <<net, verdict, mode, outcome, frame_queue, current_frame_queue,
                 previous_frame_queue, starting_frame, step_size,
                 all_frames_schedules, store, smt_file, sol_file>>

\* ------------------------------------------------- Scheduler.check_schedule
\* called on the schedule a strategy returned
CheckSchedule ==
  /\ pc = "returned" /\ outcome = "Scheduled" /\ verdict = "none"
  /\ verdict' = IF check_schedule(net, offset) THEN "accepted" ELSE "rejected"
  /\ UNCHANGED <<net, mode, pc, outcome, strategy, store, smt_file, sol_file>>

Next ==
  \/ OneShotScheduler \/ IncrementalApproach \/ SegmentedApproach
  \/ InitVariables \/ ContentionFree \/ PathDependent \/ SwitchMemory
  \/ SimultaneousDispatch \/ DependenciesConstraints
  \/ CheckSatisfiability
  \/ OneShotSat \/ ReturnInfeasible \/ GenerateScheduleXml
  \/ IncrementalLoop \/ IncrementalSat \/ LoadFixedValues
  \/ SegmentedOuter \/ ReInitVariables \/ SegmentedInner
  \/ SegmentedSat \/ SegmentFull
  \/ CheckSchedule

Spec == Init /\ [][Next]_vars

\* ------------------------------------------- the verifier on its own grids
\* Network.check_schedule reads nothing but the network and the offsets
\* stored in its paths (TreePath.set_offset); here it is applied to every
\* grid of small offsets of three small inputs, the sensing and control
\* blocks stored as init_variables stores them.
Grids(n) ==
  {[c \in AllCells(n) |->
      IF c \in SensingCells(n) THEN c.i * get_sensing_control_period(n)
      ELSE g[c]] :
   g \in [UNION {FrameCells(n, f) : f \in 0..(n.num_frames - 1)} -> 0..MaxOffset]}

VerifierInit ==
  /\ net \in {NetSplit, NetDependency, NetShared}
  /\ offset \in Grids(net)
  /\ mode = "none" /\ pc = "grid" /\ outcome = "none"
  /\ frame_queue = <<>> /\ current_frame_queue = <<>>
  /\ previous_frame_queue = <<>>
  /\ starting_frame = 0 /\ step_size = 0
  /\ starting_time = 0 /\ ending_time = 0
  /\ free_space_segment = TRUE /\ all_frames_schedules = FALSE
  /\ name_offset = {}
  /\ smt_open = FALSE /\ smt_decls = {} /\ smt_dups = {} /\ smt_asserts = {}
  /\ sol_open = FALSE /\ solution = [sat |-> FALSE, model |-> <<>>]
  /\ history = <<>>
  /\ verdict = "none"

CheckGrid ==
  /\ pc = "grid"
  /\ verdict' = IF check_schedule(net, offset) THEN "accepted" ELSE "rejected"
  /\ pc' = "checked"
  /\ UNCHANGED <<net, mode, outcome, strategy, store, smt_file, sol_file>>

VerifierSpec == VerifierInit /\ [][CheckGrid]_vars

\* ------------------------------------------- the transmission times on file
\* Frame.update_frame stores a time for every path when the network is
\* parsed; init_variables is the first to write it to the formula file, in
\* the upper bound of O[0][0]. Here both run on one frame of every size.
UpdateInit ==
  /\ net \in SizedNetworks
  /\ mode = "none" /\ pc = "idle" /\ outcome = "none"
  /\ frame_queue = <<>> /\ current_frame_queue = <<>>
  /\ previous_frame_queue = <<>>
  /\ starting_frame = 0 /\ step_size = 0
  /\ starting_time = 0 /\ ending_time = 0
  /\ free_space_segment = TRUE /\ all_frames_schedules = FALSE
  /\ offset = <<>> /\ name_offset = {}
  /\ smt_open = FALSE /\ smt_decls = {} /\ smt_dups = {} /\ smt_asserts = {}
  /\ sol_open = FALSE /\ solution = [sat |-> FALSE, model |-> <<>>]
  /\ history = <<>>
  /\ verdict = "none"

UpdateSpec == UpdateInit /\ [][OneShotScheduler \/ InitVariables]_vars

\* ------------------------------------------------------------- properties
\* the strategy returned True
Scheduled == pc = "returned" /\ outcome = "Scheduled"
\* the names of the offset cells of the frames (not of the sensing blocks)
FrameNames == {c \in DOMAIN offset : c.kind = "Offset"}
\* two links are the same link or lie in one collision domain
CoLinkOrCoDomain(l1, l2) ==
  \/ l1 = l2
  \/ \E d \in 1..Len(net.collision_domains) :
       {l1, l2} \subseteq Range(net.collision_domains[d])
\* the half-open intervals [O, O + T) of two occurrences do not meet
Disjoint(a, b) ==
  \/ offset[a] + get_transmission_time(net, a) <= offset[b]
  \/ offset[b] + get_transmission_time(net, b) <= offset[a]
\* the stride between the replicas of one instance, as the spec states it
StrideOf(f, l) ==
  IF net.replica_policy = "Spread" THEN net.replica_interval
  ELSE set_transmission_time(net, f, l)
\* parent and child links of the path tree of frame f
TreeEdges(f) ==
  LET tree == FrameTree(net, f)
  IN {<<tree[j].link_id, tree[tree[j].children[k]].link_id>> :
        <<j, k>> \in {<<x, y>> \in (1..Len(tree)) \X (1..Len(tree)) :
                        y <= Len(tree[x].children)}}
\* the splits of the input, as <<frame, split>>
AllSplits ==
  UNION {{<<f, net.frames[f + 1].splits[j]>> :
            j \in 1..Len(net.frames[f + 1].splits)} :
         f \in 0..(net.num_frames - 1)}
HasWirelessLink(split) ==
  \E l \in Range(split) : net.links[l + 1].type = "wireless"
HasDomainLink(split) ==
  \E l \in Range(split) : \E d \in 1..Len(net.collision_domains) :
    l \in Range(net.collision_domains[d])
SameOffset(f, split) ==
  \A l1, l2 \in Range(split) :
    offset[OffsetName(f, l1, 0, 0)] = offset[OffsetName(f, l2, 0, 0)]
NoEquality(f, split) ==
  \A l1, l2 \in Range(split) :
    EqVar(OffsetName(f, l1, 0, 0), OffsetName(f, l2, 0, 0)) \notin smt_asserts
\* the formula of a batch is complete and holds the frame f
BatchComplete(f) ==
  pc = "check_satisfiability" /\ f \in Range(FrameIndices(current_frame_queue))

EffectiveEnd(f, l) ==
  Min2(net.frames[f + 1].deadline, ending_time)
  - set_transmission_time(net, f, l)
  - (num_replicas_of(net, l) - 1) * StrideOf(f, l)

\* C3 as stated: the range constraints written for O[0][0] of a path of the
\* batch admit exactly the integers t_lo..end; and the frame with
\* transmission time = deadline = period is Scheduled at O[0][0] = t_lo.
C3_RangeInclusive ==
  /\ pc = "contention_free" =>
       \A c \in {x \in FrameNames :
                   /\ x.f \in Range(FrameIndices(current_frame_queue))
                   /\ x.i = 0 /\ x.r = 0} :
         {-x : x \in Interval(c, smt_asserts)}
           = starting_time..EffectiveEnd(c.f, c.l)
  /\ (net = NetTight /\ mode = "one_shot" /\ pc = "returned") =>
       /\ outcome = "Scheduled"
       /\ offset[OffsetName(0, 0, 0, 0)] = 0

C7_RestatesAll ==
  (/\ mode = "incremental" /\ pc = "incremental_loop"
   /\ starting_frame > 0 /\ starting_frame < net.num_frames) =>
    \A c \in FrameNames :
      (c.f < starting_frame /\ 0 <= offset[c] /\ offset[c] < net.hyper_period)
        => /\ c \in smt_decls
           /\ EqConst(c, offset[c]) \in smt_asserts

\* the frames of the k-th slice of N frames in natural order, step 5
NaturalSlice(k) ==
  [j \in 1..Min2(5, net.num_frames - 5 * (k - 1)) |-> 5 * (k - 1) + j - 1]

C9_Progress ==
  mode = "segmented" =>
    \A k \in 1..Len(history) :
      history[k].sat =>
        /\ history[k].frames # <<>>
        /\ \A j \in 1..(k - 1) :
             history[j].sat =>
               Range(history[k].frames) \cap Range(history[j].frames) = {}

\* C10 as stated: segmented mode returns Scheduled only with every cell
\* stored; it ends Infeasible when frames remain and t_lo >= hyper_period;
\* and every mode ends Infeasible on the input that has no schedule.
C10_Outcome ==
  /\ (mode = "segmented" /\ Scheduled) =>
       \A c \in FrameNames : offset[c] # None
  /\ (/\ mode = "segmented" /\ pc \in {"returned", "error"}
      /\ starting_time >= net.hyper_period
      /\ \E c \in FrameNames : offset[c] = None) =>
       outcome = "Infeasible"
  /\ (/\ pc \in {"returned", "error"}
      /\ \E k \in 0..MaxFill : net = Pad(NetOverload, k)) =>
       outcome = "Infeasible"

\* C11 as stated: in segmented mode an unsat answer for a slice in a
\* window [t_lo, t_hi) with t_hi < hyper_period does not end the run, and
\* the next decider round solves the same slice in the window that starts
\* at t_hi, whether or not a frame was scheduled before.
C11_UnsatAdvances ==
  mode = "segmented" =>
    \A k \in 1..Len(history) :
      (~history[k].sat /\ history[k].ending_time < net.hyper_period) =>
        /\ k = Len(history) => pc \notin {"error", "returned"}
        /\ k < Len(history) =>
             /\ history[k + 1].frames = history[k].frames
             /\ history[k + 1].starting_time = history[k].ending_time

\* the k-th segment of the hyper-period: [k * W, min((k + 1) * W, hyper_period))
IsSegment(lo, hi) ==
  \E k \in 0..(net.hyper_period \div segment_size) :
    /\ lo = k * segment_size
    /\ hi = Min2((k + 1) * segment_size, net.hyper_period)

\* C12: in segmented mode every decider round works on one of the
\* contiguous segments [k * W, min((k + 1) * W, hyper_period)), W = 1 000 000;
\* after a sat round the next round stays in the same segment, after an
\* unsat round it works on the segment that starts where the previous one
\* ended, so t_lo never decreases and no closed segment is used again.
C12_Windows ==
  mode = "segmented" =>
    /\ \A k \in 1..Len(history) :
         IsSegment(history[k].starting_time, history[k].ending_time)
    /\ \A k \in 1..(Len(history) - 1) :
         /\ history[k].sat =>
              history[k + 1].starting_time = history[k].starting_time
         /\ ~history[k].sat =>
              history[k + 1].starting_time = history[k].ending_time
    /\ \A j, k \in 1..Len(history) :
         j < k => history[j].starting_time <= history[k].starting_time

\* a segmented run whose decider worked in three segments, one after another
C12_Witness ==
  /\ mode = "segmented" /\ Len(history) >= 4
  /\ history[2].starting_time = 0 /\ ~history[2].sat
  /\ history[3].starting_time = segment_size /\ ~history[3].sat
  /\ history[4].starting_time = 2 * segment_size

\* the largest waiting time among the dependencies that involve frame f
MaxWaiting(f) ==
  LET ws == {net.dependencies[j].waiting :
               j \in {x \in 1..Len(net.dependencies) :
                        f \in {net.dependencies[x].predecessor_frame,
                               net.dependencies[x].successor_frame}}}
  IN IF ws = {} THEN 0 ELSE CHOOSE w \in ws : \A v \in ws : v <= w
EffectiveDeadline(f) == net.frames[f + 1].deadline - MaxWaiting(f)

\* C13 as stated: segmented mode builds, for every input, with or without
\* dependencies, the queue of all frames in ascending order of effective
\* deadline (deadline minus the largest waiting time of the frame's
\* dependency chain), frames of equal effective deadline in index order.
C13_EffectiveOrder ==
  mode = "segmented" =>
    /\ Len(frame_queue) = net.num_frames
    /\ \A j, k \in 1..Len(frame_queue) :
         j < k =>
           \/ EffectiveDeadline(frame_queue[j].frame)
                < EffectiveDeadline(frame_queue[k].frame)
           \/ /\ EffectiveDeadline(frame_queue[j].frame)
                   = EffectiveDeadline(frame_queue[k].frame)
              /\ frame_queue[j].frame < frame_queue[k].frame

AsModel(off) == [c \in DOMAIN off |-> -off[c]]
\* every assertion the emitters write for the whole input over
\* [0, hyper_period): the formula of the one-shot strategy
EmittedFormula(n) ==
  LET q == PlainQueue(n)
      h == get_hyper_period(n)
      fresh == [c \in AllCells(n) |->
                  IF c \in SensingCells(n) THEN c.i * get_sensing_control_period(n)
                  ELSE None]
  IN init_variables(n, q, 0, h).asserts
     \cup contention_free(n, q, <<>>, 0, h, fresh).asserts
     \cup path_dependent(n, q).asserts
     \cup switch_memory(n, q).asserts
     \cup simultaneous_dispatch(n, q).asserts
     \cup dependencies_constraints(n, q, 0, fresh, AllCells(n)).asserts
SatisfiesEmitted(n, off) ==
  \A c \in EmittedFormula(n) : Holds(c, AsModel(off))

\* C15 as stated: the verifier accepts a grid if and only if the grid
\* satisfies the constraints the strategies emit: every assignment that
\* satisfies them is accepted, and no grid that violates one of them is.
C15_AcceptsIffSat ==
  pc = "checked" =>
    (verdict = "accepted" <=> SatisfiesEmitted(net, offset))

\* C17 as stated: the verifier rejects every grid in which two path nodes
\* of a split without wireless link have different O[0][0].
C17_RejectsUnequalSplit ==
  (pc = "checked"
   /\ \E fs \in AllSplits : ~HasWirelessLink(fs[2]) /\ ~SameOffset(fs[1], fs[2]))
    => verdict = "rejected"

\* C18 as stated: the verifier accepts a grid only if, for every
\* dependency, waiting <= O_succ[0][0] - O_pred[0][0], and
\* O_succ[0][0] - O_pred[0][0] < deadline when deadline is not zero.
C18_DependencyBounds ==
  (pc = "checked" /\ verdict = "accepted") =>
    \A j \in 1..Len(net.dependencies) :
      LET d == net.dependencies[j]
          distance == offset[OffsetName(d.successor_frame, d.successor_link, 0, 0)]
                      - offset[OffsetName(d.predecessor_frame, d.predecessor_link, 0, 0)]
      IN /\ d.waiting <= distance
         /\ d.deadline # 0 => distance < d.deadline

\* inputs of one window on which incremental mode always returns Scheduled:
\* one frame on link 0 and up to MaxFill frames, each alone on its link
SingleWindowInputs == {Pad(NetSingle, k) : k \in 0..MaxFill}

C19_DeclaredOnce ==
  pc = "check_satisfiability" => smt_dups = {}

\* a formula of segmented mode that holds frames declared again by
\* re_init_variables, the new frames of the batch, and the sensing and
\* control blocks declared by re_init_variables and by init_variables
C19_Witness ==
  /\ pc = "check_satisfiability" /\ mode = "segmented" /\ starting_frame > 0
  /\ \E c \in smt_decls : c.kind = "Offset" /\ c.f \in Range(FrameIndices(previous_frame_queue))
  /\ \E c \in smt_decls : c.kind = "Offset" /\ c.f \in Range(FrameIndices(current_frame_queue))
  /\ \E c \in SensingCells(net) :
       {SensingName(c.l, c.i), SensingShortName(c.l, c.i)} \subseteq smt_decls

\* C20 as stated: when the decider is about to be spawned no solution file
\* of an earlier round is open, after a sat and after an unsat answer
\* alike; and when the decider has answered, the formula file is closed.
C20_HandlesReleased ==
  /\ pc = "check_satisfiability" => ~sol_open
  /\ pc \in {"save_solution", "unsat"} => ~smt_open

\* the assertions of the six families for the batch being emitted
BatchFamilies ==
  init_variables(net, current_frame_queue, starting_time, ending_time).asserts
  \cup contention_free(net, current_frame_queue, previous_frame_queue,
                       starting_time, ending_time, offset).asserts
  \cup path_dependent(net, current_frame_queue).asserts
  \cup switch_memory(net, current_frame_queue).asserts
  \cup simultaneous_dispatch(net, current_frame_queue).asserts
  \cup dependencies_constraints(net, current_frame_queue, starting_time,
                                offset, name_offset).asserts
\* the statements between the declaration of the batch and the decider
Emitting ==
  pc \in {"contention_free", "path_dependent", "switch_memory",
          "simultaneous_dispatch", "dependencies_constraints",
          "check_satisfiability"}
\* the frames some sat round absorbed
Absorbed ==
  UNION {Range(history[k].frames) : k \in {j \in 1..Len(history) : history[j].sat}}

\* C21: in every strategy the variables of the batch are declared before
\* the constraint families are written, the decider is called on a file
\* that holds all six families of the batch, an offset of a frame is
\* stored only by the absorption that follows a sat answer for a batch
\* holding the frame, and a stored offset is never changed afterwards.
C21_BatchOrder ==
  /\ [](Emitting => CellsOf(net, current_frame_queue) \subseteq smt_decls)
  /\ [](pc = "check_satisfiability" => BatchFamilies \subseteq smt_asserts)
  /\ [](\A c \in FrameNames : offset[c] # None => c.f \in Absorbed)
  /\ [][\A c \in FrameNames :
          /\ offset[c] # None => offset'[c] = offset[c]
          /\ offset'[c] # offset[c] =>
               /\ pc = "save_solution" /\ solution.sat
               /\ c.f \in Range(FrameIndices(current_frame_queue))]_vars

\* an incremental run whose second batch was absorbed after the first
C21_Witness ==
  /\ mode = "incremental" /\ pc = "load_fixed_values" /\ Len(history) = 2
  /\ \E a, b \in FrameNames :
       /\ a.f \in Range(history[1].frames) /\ offset[a] # None
       /\ b.f \in Range(history[2].frames) /\ offset[b] # None


\* C22 as stated: on a network without a sensing-and-control reservation,
\* emitting contention freedom for a batch completes, adds no constraint
\* that names a sensing-and-control variable, and the strategy goes on
\* towards the decider call.
C22_SensingOptional ==
  [][(pc = "contention_free" /\ ~HasSensingControl(net)) =>
       /\ pc' = "path_dependent"
       /\ \A c \in smt_asserts' \ smt_asserts :
            {c.a, c.b} \cap SensingCells(net) = {}]_vars


\* the time of the one frame of a network of SizedNetworks by the formula
\* ceil(size_bytes * 8000 / speed_mbps)
StatedTime == CeilDiv(net.frames[1].size * 8000, net.links[1].speed)

\* C23 as stated: the transmission time of a frame of size_bytes on a link
\* of speed_mbps is ceil(size_bytes * 8000 / speed_mbps) nanoseconds, so
\* the upper bound written for O[0][0] of the frame is its deadline minus
\* that time.
C23_TransmissionTime ==
  (net \in SizedNetworks /\ pc = "contention_free") =>
    GtConst(OffsetName(0, 0, 0, 0), get_frame_deadline(net, 0) - StatedTime)
      \in smt_asserts


\* the disjunctions written for two frames that contend
FramePairs ==
  {c \in smt_asserts :
     /\ c.op = "or (> (- a k) b) (<= a (- b k2))"
     /\ c.a.kind = "Offset" /\ c.b.kind = "Offset"}

\* C24 as stated: a contention constraint emitted for transmissions a and
\* b is satisfied by exactly the offsets with O_a + T_a <= O_b or
\* O_a >= O_b + T_b, so back-to-back transmissions are admitted in either
\* order.
C24_ContentionExact ==
  \A c \in FramePairs : \A oa, ob \in 0..MaxOffset :
    Holds(c, (c.a :> -oa) @@ (c.b :> -ob)) <=>
      \/ oa + get_transmission_time(net, c.a) <= ob
      \/ oa >= ob + get_transmission_time(net, c.b)

\* C24, as the code has it: the first disjunct is strict, so b directly
\* after a is excluded and a directly after b is admitted.
C24_ContentionStrict ==
  \A c \in FramePairs : \A oa, ob \in 0..MaxOffset :
    Holds(c, (c.a :> -oa) @@ (c.b :> -ob)) <=>
      \/ oa + get_transmission_time(net, c.a) < ob
      \/ oa >= ob + get_transmission_time(net, c.b)


\* C25 as stated: whatever the order in which the dependencies of a forest
\* were added, get_dependency_by_frame(f) of every successor f returns a
\* node whose parent is the node of f's predecessor.
C25_LookupAnyOrder ==
  LET t == get_dependencies(net)
  IN \A j \in 1..Len(net.dependencies) :
       LET d == net.dependencies[j]
           p == get_dependency_by_frame(t, d.successor_frame)
       IN /\ p # 0
          /\ t.nodes[p].parent # 0
          /\ t.nodes[t.nodes[p].parent].frame_index = d.predecessor_frame


\* C26 as stated: in the path tree of every frame there is one node per
\* distinct link, every child of a node p has p as its parent pointer, and
\* only the root has no parent.
C26_ParentPointers ==
  \A f \in 0..(net.num_frames - 1) :
    LET tree == FrameTree(net, f)
    IN /\ \A p, c \in 1..Len(tree) :
            (c \in Range(tree[p].children) => tree[c].parent = p)
            /\ (tree[p].link_id = tree[c].link_id => p = c)
       /\ \A c \in 2..Len(tree) : tree[c].parent # 0
       /\ tree[1].parent = 0


\* C27 as stated: in every formula file that the incremental or the
\* segmented strategy hands to the decider, every variable name that
\* occurs in an assertion is declared in the same file.
C27_NamesDeclared ==
  (mode \in {"incremental", "segmented"} /\ pc = "check_satisfiability") =>
    Referenced(smt_asserts) \subseteq smt_decls


\* what the emitter about to run would write to the formula file
PendingWrite ==
  CASE pc = "init_variables" ->
         init_variables(net, current_frame_queue, starting_time, ending_time)
    [] pc = "contention_free" ->
         contention_free(net, current_frame_queue, previous_frame_queue,
                         starting_time, ending_time, offset)
    [] pc = "path_dependent" -> path_dependent(net, current_frame_queue)
    [] pc = "switch_memory" -> switch_memory(net, current_frame_queue)
    [] pc = "simultaneous_dispatch" ->
         simultaneous_dispatch(net, current_frame_queue)
    [] pc = "dependencies_constraints" ->
         dependencies_constraints(net, current_frame_queue, starting_time,
                                  offset, name_offset)
    [] OTHER -> [decls |-> {}, asserts |-> {}]

\* C28 as stated: every write of a declaration or an assertion goes to an
\* open formula file; after check_satisfiability closed the file no
\* emitter writes before it is re-opened, also after an unsat answer.
C28_WritesToOpenFile ==
  (PendingWrite.decls # {} \/ PendingWrite.asserts # {}) => smt_open


\* the dependencies of the input whose successor is in the batch
BatchDependencies ==
  {j \in 1..Len(net.dependencies) :
     net.dependencies[j].successor_frame \in Range(FrameIndices(current_frame_queue))}
SuccessorName(d) == OffsetName(d.successor_frame, d.successor_link, 0, 0)
PredecessorName(d) == OffsetName(d.predecessor_frame, d.predecessor_link, 0, 0)
\* the order assertions of the file between the two ends of a dependency
OrderAsserts(d) ==
  {c \in smt_asserts :
     /\ c.a = SuccessorName(d) /\ c.b = PredecessorName(d)
     /\ c.op \in {"> a (- b k)", "< a b", "< a (- b k)"}}

\* C29 as stated: once the dependency constraints of a batch are written, every
\* dependency with deadline > 0 whose successor is in the batch has both
\* O_succ < O_pred + deadline and O_succ > O_pred on file, whatever its
\* waiting time, so that every assignment that satisfies the file's
\* constraints on it has O_pred < O_succ < O_pred + deadline; a dependency
\* with deadline = 0 has O_succ > O_pred + waiting on file and nothing else.
C29_DeadlineOrder ==
  pc = "check_satisfiability" =>
    \A j \in BatchDependencies :
      LET d == net.dependencies[j]
          s == SuccessorName(d)
          p == PredecessorName(d)
      IN IF d.deadline > 0
         THEN /\ {GtMinus(s, p, d.deadline), LtVar(s, p)} \subseteq OrderAsserts(d)
              /\ \A os, op \in 0..MaxOffset :
                   (\A c \in OrderAsserts(d) : Holds(c, (s :> -os) @@ (p :> -op)))
                     => (op < os /\ os < op + d.deadline)
         ELSE OrderAsserts(d) = {LtMinus(s, p, d.waiting)}


====
